---- MODULE Spec2Model ----
(***************************************************************************)
(* Routing hook with fallback (contracts/hooks/routing-fallback).          *)
(*                                                                         *)
(* The contract keeps one persisted slot, FALLBACK_HOOK, next to the owner *)
(* kept by hpl_ownable and the domain -> hook table kept by hpl_router.    *)
(* post_dispatch and quote_dispatch resolve the hook of a message's        *)
(* destination domain (route) and relay the call to it.                    *)
(*                                                                         *)
(* One request is handled per step.  storage is the persisted state, resp  *)
(* is the request just handled together with its result (error or          *)
(* Response: sub-messages, events, query data); for a quote it also holds  *)
(* the wasm handler of the querier the query ran with.  last_set and       *)
(* set_twice are history: the address of the last successful               *)
(* SetFallbackHook, and whether the request just handled repeated the      *)
(* successful SetFallbackHook handled right before it.  The owner that     *)
(* instantiate is given is test::OWNER, as in test::deps, so any other     *)
(* owner got the ownership through hpl_ownable.                            *)
(***************************************************************************)
EXTENDS Integers, Sequences, FiniteSets, TLC

VARIABLES storage, resp, last_set, set_twice

vars == <<storage, resp, last_set, set_twice>>

----------------------------------------------------------------------------
(* Bounds of the model *)

MaxDomain == 1
MaxNonce == 0

----------------------------------------------------------------------------
(* Values *)

\* Option::None
None == "<none>"

\* test::ROUTE1 is (26657, "route1"), test::ROUTE2 is (26658, "route2")
BaseDomain == 26657

Domains == BaseDomain .. (BaseDomain + MaxDomain)

\* test::OWNER, test::DEPLOYER, test::MAILBOX
OWNER == "owner"
DEPLOYER == "deployer"
MAILBOX == "mailbox"
Senders == {OWNER, DEPLOYER, MAILBOX}

\* the accounts that own the contract at some time
Owners == {OWNER, DEPLOYER}

\* test::FALLBACK_HOOK and the hook of test::ROUTE1
FALLBACK_HOOK_ADDR == "fallback_hook"
ROUTE1_ADDR == "route1"
HookAddrs == {FALLBACK_HOOK_ADDR, ROUTE1_ADDR}

\* a string that is not a well-formed account reference
BadAddr == ""

Ok == "Ok"

\* ContractError::Unauthorized
Unauthorized == "unauthorized"

\* StdError::NotFound, raised by Item::load on an empty slot
NotFound == "NotFound"

\* StdError::GenericErr raised by Api::addr_validate
InvalidAddress == "GenericErr(invalid address)"

\* failure of decoding the message bytes
ValidationError == "ValidationError"

\* SystemError::NoSuchContract, raised by a querier with no wasm handler
NoSuchContract == "NoSuchContract"

----------------------------------------------------------------------------
(* Byte strings *)

\* u32::to_be_bytes
to_be_bytes(n) ==
    << (n \div 16777216) % 256, (n \div 65536) % 256, (n \div 256) % 256, n % 256 >>

\* u32::from_be_bytes
from_be_bytes(b) ==
    b[1] * 16777216 + b[2] * 65536 + b[3] * 256 + b[4]

\* metadata of a request: empty, or a fee in big-endian bytes
Metadatas == {<<>>, to_be_bytes(BaseDomain)}

\* message bytes: <<nonce, dest_domain>> followed by the body; shorter
\* strings do not hold a header
HeaderLen == 2

HexMessages ==
    {<<>>} \cup {<<n, d>> : n \in 0 .. MaxNonce, d \in Domains}

\* Message: From<HexBinary>
decode(bytes) ==
    IF Len(bytes) < HeaderLen
    THEN [res |-> ValidationError]
    ELSE [res |-> Ok,
          msg |-> [nonce |-> bytes[1],
                   dest_domain |-> bytes[2],
                   body |-> SubSeq(bytes, HeaderLen + 1, Len(bytes))]]

\* HexBinary: From<Message>
encode(msg) == <<msg.nonce, msg.dest_domain>> \o msg.body

\* Message::id, the keccak256 digest of the encoded message
id(msg) == <<"keccak256", encode(msg)>>

\* HexBinary::to_hex
to_hex(digest) == <<"0x", digest>>

----------------------------------------------------------------------------
(* Collaborators *)

\* Api::addr_validate
addr_validate(s) ==
    IF s \in Senders \cup HookAddrs
    THEN [res |-> Ok, addr |-> s]
    ELSE [res |-> InvalidAddress]

\* hpl_ownable::get_owner
get_owner(st) ==
    IF st.owner = None THEN [res |-> NotFound] ELSE [res |-> Ok, addr |-> st.owner]

\* hpl_router::get_route
get_route(st, domain) ==
    [domain |-> domain,
     route |-> IF domain \in DOMAIN st.routes THEN st.routes[domain] ELSE None]

\* new_event
new_event(name) == [ty |-> <<"hpl_hook_routing", name>>, attributes |-> <<>>]

add_attribute(ev, key, value) ==
    [ev EXCEPT !.attributes = Append(@, <<key, value>>)]

\* a Response without data, a request without arguments
NoData == [none |-> TRUE]
NoReq == [none |-> TRUE]

\* a failed request: nothing but the error
Err(e) == [res |-> e, messages |-> <<>>, events |-> <<>>, data |-> NoData]

\* the storage before the contract is instantiated
EmptyStorage ==
    [contract_info |-> None,
     owner |-> None,
     pending_owner |-> None,
     fallback_hook |-> None,
     routes |-> [d \in {} |-> None]]

----------------------------------------------------------------------------
(* instantiate *)

\* CONTRACT_NAME, CONTRACT_VERSION as stored by cw2::set_contract_version
CONTRACT_INFO == "hpl-hook-routing-fallback"

set_contract_version(st) == [st EXCEPT !.contract_info = CONTRACT_INFO]

\* hpl_ownable::initialize
initialize(st, owner) == [st EXCEPT !.owner = owner]

\* instantiate that also fills the fallback slot with the owner
instantiate_sets_fallback(st, info, msg) ==
    LET owner == addr_validate(msg.owner)
    IN  IF owner.res # Ok THEN Err(owner.res)
        ELSE [res |-> Ok,
              storage |-> [initialize(set_contract_version(st), owner.addr)
                              EXCEPT !.fallback_hook = owner.addr],
              messages |-> <<>>,
              events |-> << add_attribute(
                              add_attribute(new_event("initialize"),
                                            "sender", info.sender),
                              "owner", owner.addr) >>,
              data |-> NoData]

\* instantiate that records the sender of the message as the owner
instantiate_sender_owns(st, info, msg) ==
    LET owner == addr_validate(msg.owner)
    IN  IF owner.res # Ok THEN Err(owner.res)
        ELSE [res |-> Ok,
              storage |-> initialize(set_contract_version(st), info.sender),
              messages |-> <<>>,
              events |-> << add_attribute(
                              add_attribute(new_event("initialize"),
                                            "sender", info.sender),
                              "owner", owner.addr) >>,
              data |-> NoData]

instantiate(st, info, msg) ==
    LET st1 == set_contract_version(st)
        owner == addr_validate(msg.owner)
    IN  IF owner.res # Ok THEN Err(owner.res)
        ELSE [res |-> Ok,
              storage |-> initialize(st1, owner.addr),
              messages |-> <<>>,
              events |-> << add_attribute(
                              add_attribute(new_event("initialize"),
                                            "sender", info.sender),
                              "owner", owner.addr) >>,
              data |-> NoData]

----------------------------------------------------------------------------
(* FALLBACK_HOOK: Item<Addr> *)

\* a save that keeps the value already stored
save_if_unset(st, addr) ==
    IF st.fallback_hook = None THEN [st EXCEPT !.fallback_hook = addr] ELSE st

\* FALLBACK_HOOK.save
save(st, addr) == [st EXCEPT !.fallback_hook = addr]

\* a load that answers the empty slot as an address
load_or_default(st) == [res |-> Ok, addr |-> st.fallback_hook]

\* FALLBACK_HOOK.load
load(st) ==
    IF st.fallback_hook = None
    THEN [res |-> NotFound]
    ELSE [res |-> Ok, addr |-> st.fallback_hook]

\* SetFallbackHook that validates the address before it checks the owner
set_fallback_hook_validates_first(st, info, hook) ==
    LET owner == get_owner(st)
        fallback_hook == addr_validate(hook)
    IN  IF fallback_hook.res # Ok THEN Err(fallback_hook.res)
        ELSE IF owner.res # Ok THEN Err(owner.res)
        ELSE IF owner.addr # info.sender THEN Err(Unauthorized)
        ELSE [res |-> Ok,
              storage |-> save(st, fallback_hook.addr),
              messages |-> <<>>,
              events |-> << add_attribute(
                              add_attribute(new_event("set_fallback_hook"),
                                            "sender", info.sender),
                              "fallback-hook", hook) >>,
              data |-> NoData]

\* SetFallbackHook that admits one fixed account instead of the stored owner
set_fallback_hook_fixed_owner(st, info, hook) ==
    LET fallback_hook == addr_validate(hook)
    IN  IF info.sender # OWNER THEN Err(Unauthorized)
        ELSE IF fallback_hook.res # Ok THEN Err(fallback_hook.res)
        ELSE [res |-> Ok,
              storage |-> save(st, fallback_hook.addr),
              messages |-> <<>>,
              events |-> << add_attribute(
                              add_attribute(new_event("set_fallback_hook"),
                                            "sender", info.sender),
                              "fallback-hook", hook) >>,
              data |-> NoData]

\* SetFallbackHook that stores the address as it is given
set_fallback_hook_unvalidated(st, info, hook) ==
    LET owner == get_owner(st)
    IN  IF owner.res # Ok THEN Err(owner.res)
        ELSE IF owner.addr # info.sender THEN Err(Unauthorized)
        ELSE [res |-> Ok,
              storage |-> save(st, hook),
              messages |-> <<>>,
              events |-> << add_attribute(
                              add_attribute(new_event("set_fallback_hook"),
                                            "sender", info.sender),
                              "fallback-hook", hook) >>,
              data |-> NoData]

\* SetFallbackHook that refuses the address already stored
set_fallback_hook_rejects_same(st, info, hook) ==
    LET owner == get_owner(st)
        fallback_hook == addr_validate(hook)
    IN  IF owner.res # Ok THEN Err(owner.res)
        ELSE IF owner.addr # info.sender THEN Err(Unauthorized)
        ELSE IF fallback_hook.res # Ok THEN Err(fallback_hook.res)
        ELSE IF st.fallback_hook = fallback_hook.addr THEN Err("already set")
        ELSE [res |-> Ok,
              storage |-> save(st, fallback_hook.addr),
              messages |-> <<>>,
              events |-> << add_attribute(
                              add_attribute(new_event("set_fallback_hook"),
                                            "sender", info.sender),
                              "fallback-hook", hook) >>,
              data |-> NoData]

\* ExecuteMsg::SetFallbackHook arm of execute
set_fallback_hook(st, info, hook) ==
    LET owner == get_owner(st)
        fallback_hook == addr_validate(hook)
    IN  IF owner.res # Ok THEN Err(owner.res)
        ELSE IF owner.addr # info.sender THEN Err(Unauthorized)
        ELSE IF fallback_hook.res # Ok THEN Err(fallback_hook.res)
        ELSE [res |-> Ok,
              storage |-> save(st, fallback_hook.addr),
              messages |-> <<>>,
              events |-> << add_attribute(
                              add_attribute(new_event("set_fallback_hook"),
                                            "sender", info.sender),
                              "fallback-hook", hook) >>,
              data |-> NoData]

----------------------------------------------------------------------------
(* route, post_dispatch, quote_dispatch, get_mailbox *)

\* route where a stored fallback takes the place of the override
route_prefers_fallback(st, message) ==
    LET decoded_msg == decode(message)
        fallback_hook == load(st)
    IN  IF decoded_msg.res # Ok THEN [res |-> decoded_msg.res]
        ELSE IF fallback_hook.res # Ok THEN [res |-> fallback_hook.res]
        ELSE [res |-> Ok,
              decoded_msg |-> decoded_msg.msg,
              routed_hook |-> fallback_hook.addr]

\* route that takes any entry of the table, empty or not, as the override
route_entry_is_override(st, message) ==
    LET decoded_msg == decode(message)
        fallback_hook == load(st)
    IN  IF decoded_msg.res # Ok THEN [res |-> decoded_msg.res]
        ELSE IF fallback_hook.res # Ok THEN [res |-> fallback_hook.res]
        ELSE [res |-> Ok,
              decoded_msg |-> decoded_msg.msg,
              routed_hook |-> IF decoded_msg.msg.dest_domain \in DOMAIN st.routes
                              THEN st.routes[decoded_msg.msg.dest_domain]
                              ELSE fallback_hook.addr]

\* route that reads the fallback slot only when the domain has no override
route_lazy_fallback(st, message) ==
    LET decoded_msg == decode(message)
    IN  IF decoded_msg.res # Ok THEN [res |-> decoded_msg.res]
        ELSE LET routed_hook_set == get_route(st, decoded_msg.msg.dest_domain)
                 fallback_hook == load(st)
             IN  IF routed_hook_set.route # None
                 THEN [res |-> Ok,
                       decoded_msg |-> decoded_msg.msg,
                       routed_hook |-> routed_hook_set.route]
                 ELSE IF fallback_hook.res # Ok THEN [res |-> fallback_hook.res]
                 ELSE [res |-> Ok,
                       decoded_msg |-> decoded_msg.msg,
                       routed_hook |-> fallback_hook.addr]

route(st, message) ==
    LET decoded_msg == decode(message)
        fallback_hook == load(st)
    IN  IF decoded_msg.res # Ok THEN [res |-> decoded_msg.res]
        ELSE IF fallback_hook.res # Ok THEN [res |-> fallback_hook.res]
        ELSE LET routed_hook_set == get_route(st, decoded_msg.msg.dest_domain)
             IN  [res |-> Ok,
                  decoded_msg |-> decoded_msg.msg,
                  routed_hook |-> IF routed_hook_set.route # None
                                  THEN routed_hook_set.route
                                  ELSE fallback_hook.addr]

\* PostDispatchMsg::wrap
wrap(req) == [post_dispatch |-> req]

\* cosmwasm_std::wasm_execute
wasm_execute(contract_addr, msg, funds) ==
    [contract_addr |-> contract_addr, msg |-> msg, funds |-> funds]

\* post_dispatch that answers a failed resolution with an event
post_dispatch_skips_unrouted(st, info, req) ==
    LET r == route(st, req.message)
    IN  IF r.res # Ok
        THEN [res |-> Ok,
              storage |-> st,
              messages |-> <<>>,
              events |-> << add_attribute(new_event("post_dispatch"),
                                          "skipped", r.res) >>,
              data |-> NoData]
        ELSE [res |-> Ok,
              storage |-> st,
              messages |-> << wasm_execute(r.routed_hook, wrap(req), <<>>) >>,
              events |-> << add_attribute(
                              add_attribute(
                                add_attribute(new_event("post_dispatch"),
                                              "domain",
                                              ToString(r.decoded_msg.dest_domain)),
                                "route", r.routed_hook),
                              "message_id", to_hex(id(r.decoded_msg))) >>,
              data |-> NoData]

\* post_dispatch that stores the hook it resolved in the fallback slot
post_dispatch_keeps_route(st, info, req) ==
    LET r == route(st, req.message)
    IN  IF r.res # Ok THEN Err(r.res)
        ELSE [res |-> Ok,
              storage |-> save(st, r.routed_hook),
              messages |-> << wasm_execute(r.routed_hook, wrap(req), <<>>) >>,
              events |-> << add_attribute(
                              add_attribute(
                                add_attribute(new_event("post_dispatch"),
                                              "domain",
                                              ToString(r.decoded_msg.dest_domain)),
                                "route", r.routed_hook),
                              "message_id", to_hex(id(r.decoded_msg))) >>,
              data |-> NoData]

\* post_dispatch that always calls the fallback hook
post_dispatch_to_fallback(st, info, req) ==
    LET r == route(st, req.message)
    IN  IF r.res # Ok THEN Err(r.res)
        ELSE [res |-> Ok,
              storage |-> st,
              messages |-> << wasm_execute(load(st).addr, wrap(req), <<>>) >>,
              events |-> << add_attribute(
                              add_attribute(
                                add_attribute(new_event("post_dispatch"),
                                              "domain",
                                              ToString(r.decoded_msg.dest_domain)),
                                "route", r.routed_hook),
                              "message_id", to_hex(id(r.decoded_msg))) >>,
              data |-> NoData]

\* post_dispatch that only the owner may call
post_dispatch_owner_only(st, info, req) ==
    LET r == route(st, req.message)
    IN  IF st.owner # info.sender THEN Err(Unauthorized)
        ELSE IF r.res # Ok THEN Err(r.res)
        ELSE [res |-> Ok,
              storage |-> st,
              messages |-> << wasm_execute(r.routed_hook, wrap(req), <<>>) >>,
              events |-> << add_attribute(
                              add_attribute(
                                add_attribute(new_event("post_dispatch"),
                                              "domain",
                                              ToString(r.decoded_msg.dest_domain)),
                                "route", r.routed_hook),
                              "message_id", to_hex(id(r.decoded_msg))) >>,
              data |-> NoData]

post_dispatch(st, info, req) ==
    LET r == route(st, req.message)
    IN  IF r.res # Ok THEN Err(r.res)
        ELSE [res |-> Ok,
              storage |-> st,
              messages |-> << wasm_execute(r.routed_hook, wrap(req), <<>>) >>,
              events |-> << add_attribute(
                              add_attribute(
                                add_attribute(new_event("post_dispatch"),
                                              "domain",
                                              ToString(r.decoded_msg.dest_domain)),
                                "route", r.routed_hook),
                              "message_id", to_hex(id(r.decoded_msg))) >>,
              data |-> NoData]

\* test::mock_query_handler: the fee list a hook answers to a quote query
mock_query_handler(contract_addr, req) ==
    LET parsed == IF req.metadata # <<>>
                  THEN << [denom |-> "utest", amount |-> from_be_bytes(req.metadata)] >>
                  ELSE <<>>
    IN  [res |-> Ok,
         fees |-> IF contract_addr = FALLBACK_HOOK_ADDR THEN <<>> ELSE parsed]

\* the wasm handlers a querier can hold: none, as MockQuerier is built, or
\* test::mock_query_handler after MockQuerier::update_wasm
WasmHandlers == {"no_such_contract", "mock_query_handler"}

\* hook::quote_dispatch: a smart query sent to the hook through the querier
hook_quote_dispatch(q, hook, metadata, message) ==
    IF q = "mock_query_handler"
    THEN mock_query_handler(hook, [metadata |-> metadata, message |-> message])
    ELSE [res |-> NoSuchContract]

\* quote_dispatch that answers a failed hook query with an empty fee list
quote_dispatch_default_fee(st, q, req) ==
    LET r == route(st, req.message)
    IN  IF r.res # Ok THEN Err(r.res)
        ELSE LET answer == hook_quote_dispatch(q, r.routed_hook,
                                               req.metadata, req.message)
             IN  [res |-> Ok,
                  storage |-> st,
                  messages |-> <<>>,
                  events |-> <<>>,
                  data |-> [fees |-> IF answer.res # Ok THEN <<>> ELSE answer.fees]]

\* quote_dispatch that always asks the fallback hook
quote_dispatch_fallback_only(st, q, req) ==
    LET r == route(st, req.message)
    IN  IF r.res # Ok THEN Err(r.res)
        ELSE LET answer == hook_quote_dispatch(q, load(st).addr,
                                               req.metadata, req.message)
             IN  IF answer.res # Ok THEN Err(answer.res)
                 ELSE [res |-> Ok,
                       storage |-> st,
                       messages |-> <<>>,
                       events |-> <<>>,
                       data |-> [fees |-> answer.fees]]

quote_dispatch(st, q, req) ==
    LET r == route(st, req.message)
    IN  IF r.res # Ok THEN Err(r.res)
        ELSE LET answer == hook_quote_dispatch(q, r.routed_hook,
                                               req.metadata, req.message)
             IN  IF answer.res # Ok THEN Err(answer.res)
                 ELSE [res |-> Ok,
                       storage |-> st,
                       messages |-> <<>>,
                       events |-> <<>>,
                       data |-> [fees |-> answer.fees]]

\* get_mailbox that names the owner as the mailbox
get_mailbox_of_owner(st) ==
    [res |-> Ok, storage |-> st, messages |-> <<>>, events |-> <<>>,
     data |-> [mailbox |-> st.owner]]

get_mailbox(st) ==
    [res |-> Ok, storage |-> st, messages |-> <<>>, events |-> <<>>,
     data |-> [mailbox |-> "unrestricted"]]

----------------------------------------------------------------------------
(* The access-control and routing-table collaborators *)

OwnableMsgs ==
    {[tag |-> "InitOwnershipTransfer", next_owner |-> n] : n \in Owners}
    \cup {[tag |-> "RevokeOwnershipTransfer"], [tag |-> "ClaimOwnership"]}

\* hpl_ownable::handle: the owner names a pending owner or revokes it, the
\* pending owner claims the ownership
ownable_handle(st, info, msg) ==
    LET done(st2, name) ==
            [res |-> Ok, storage |-> st2, messages |-> <<>>,
             events |-> << add_attribute(new_event(name), "sender", info.sender) >>,
             data |-> NoData]
    IN  CASE msg.tag = "InitOwnershipTransfer" ->
                IF st.owner # info.sender THEN Err(Unauthorized)
                ELSE IF st.pending_owner # None THEN Err("ownership is transferring")
                ELSE done([st EXCEPT !.pending_owner = msg.next_owner],
                          "init_ownership_transfer")
          [] msg.tag = "RevokeOwnershipTransfer" ->
                IF st.owner # info.sender THEN Err(Unauthorized)
                ELSE IF st.pending_owner = None THEN Err("ownership is not transferring")
                ELSE done([st EXCEPT !.pending_owner = None],
                          "revoke_ownership_transfer")
          [] msg.tag = "ClaimOwnership" ->
                IF st.pending_owner # info.sender THEN Err(Unauthorized)
                ELSE done([st EXCEPT !.owner = info.sender, !.pending_owner = None],
                          "claim_ownership")

RouterMsgs ==
    {[tag |-> "SetRoute", set |-> [domain |-> d, route |-> r]] :
        d \in Domains, r \in HookAddrs \cup {None}}

\* hpl_router::set_route
set_route(st, set) ==
    [st EXCEPT !.routes =
        [d \in (DOMAIN st.routes) \cup {set.domain} |->
            IF d = set.domain THEN set.route ELSE st.routes[d]]]

\* hpl_router::handle: the owner writes one entry of the table
router_handle(st, info, msg) ==
    IF st.owner # info.sender THEN Err(Unauthorized)
    ELSE [res |-> Ok,
          storage |-> set_route(st, msg.set),
          messages |-> <<>>,
          events |-> << add_attribute(
                          add_attribute(new_event("set_route"),
                                        "sender", info.sender),
                          "domain", ToString(msg.set.domain)) >>,
          data |-> NoData]

----------------------------------------------------------------------------
(* The state machine *)

\* the environment keeps the writes of a request only if the request succeeds
Commit(st, out) == IF out.res = Ok THEN out.storage ELSE st

\* the request just handled and its result
Handled(op, sender, req, out) ==
    [op |-> op, sender |-> sender, req |-> req,
     res |-> out.res, messages |-> out.messages, events |-> out.events,
     data |-> out.data]

Instantiated == storage.contract_info # None

Init ==
    /\ storage = EmptyStorage
    /\ resp = [op |-> "none", sender |-> None, req |-> NoReq, res |-> Ok,
               messages |-> <<>>, events |-> <<>>, data |-> NoData]
    /\ last_set = None
    /\ set_twice = FALSE

\* instantiate: the deployment of the contract, once
Instantiate ==
    /\ ~Instantiated
    /\ \E sender \in Senders, owner \in {OWNER, BadAddr} :
         LET msg == [owner |-> owner]
             out == instantiate(storage, [sender |-> sender], msg)
         IN  /\ storage' = Commit(storage, out)
             /\ resp' = Handled("Instantiate", sender, msg, out)
    /\ set_twice' = FALSE
    /\ UNCHANGED last_set

\* execute, ExecuteMsg::SetFallbackHook
SetFallbackHook ==
    /\ Instantiated
    /\ \E sender \in Senders, hook \in HookAddrs \cup {BadAddr} :
         LET out == set_fallback_hook(storage, [sender |-> sender], hook)
         IN  /\ storage' = Commit(storage, out)
             /\ resp' = Handled("SetFallbackHook", sender, [hook |-> hook], out)
             /\ last_set' = IF out.res = Ok THEN hook ELSE last_set
             /\ set_twice' = /\ out.res = Ok
                             /\ resp.op = "SetFallbackHook"
                             /\ resp.res = Ok
                             /\ resp.req.hook = hook

\* execute, ExecuteMsg::PostDispatch
PostDispatch ==
    /\ Instantiated
    /\ \E sender \in Senders, message \in HexMessages, metadata \in Metadatas :
         LET req == [metadata |-> metadata, message |-> message]
             out == post_dispatch(storage, [sender |-> sender], req)
         IN  /\ storage' = Commit(storage, out)
             /\ resp' = Handled("PostDispatch", sender, req, out)
    /\ set_twice' = FALSE
    /\ UNCHANGED last_set

\* execute, ExecuteMsg::Ownable
Ownable ==
    /\ Instantiated
    /\ \E sender \in Senders, msg \in OwnableMsgs :
         LET out == ownable_handle(storage, [sender |-> sender], msg)
         IN  /\ storage' = Commit(storage, out)
             /\ resp' = Handled("Ownable", sender, msg, out)
    /\ set_twice' = FALSE
    /\ UNCHANGED last_set

\* execute, ExecuteMsg::Router
Router ==
    /\ Instantiated
    /\ \E sender \in Senders, msg \in RouterMsgs :
         LET out == router_handle(storage, [sender |-> sender], msg)
         IN  /\ storage' = Commit(storage, out)
             /\ resp' = Handled("Router", sender, msg, out)
    /\ set_twice' = FALSE
    /\ UNCHANGED last_set

\* query, HookQueryMsg::QuoteDispatch
QuoteDispatch ==
    /\ Instantiated
    /\ \E message \in HexMessages, metadata \in Metadatas,
          querier \in WasmHandlers :
         LET req == [metadata |-> metadata, message |-> message]
             out == quote_dispatch(storage, querier, req)
         IN  resp' = [querier |-> querier]
                        @@ Handled("QuoteDispatch", None, req, out)
    /\ set_twice' = FALSE
    /\ UNCHANGED <<storage, last_set>>

\* query, HookQueryMsg::Mailbox
GetMailbox ==
    /\ Instantiated
    /\ resp' = Handled("GetMailbox", None, NoReq, get_mailbox(storage))
    /\ set_twice' = FALSE
    /\ UNCHANGED <<storage, last_set>>

Next ==
    \/ Instantiate
    \/ SetFallbackHook
    \/ PostDispatch
    \/ Ownable
    \/ Router
    \/ QuoteDispatch
    \/ GetMailbox

Spec == Init /\ [][Next]_vars

TypeOK ==
    /\ storage.owner \in Senders \cup {None}
    /\ storage.pending_owner \in Senders \cup {None}
    /\ storage.fallback_hook \in HookAddrs \cup {None}
    /\ DOMAIN storage.routes \subseteq Domains
    /\ resp.op = "QuoteDispatch" => resp.querier \in WasmHandlers
    /\ last_set \in HookAddrs \cup {None}
    /\ set_twice \in BOOLEAN

----------------------------------------------------------------------------
(* What the routing table and the fallback slot say about a domain *)

\* the override entry of domain d in storage st, None without one
Override(st, d) ==
    IF d \in DOMAIN st.routes THEN st.routes[d] ELSE None

HasOverride(st, d) == Override(st, d) # None

\* the messages that decode, and their destination domain
Decodable == {m \in HexMessages : Len(m) >= HeaderLen}

DestOf(m) == m[HeaderLen]

\* the hook a request for domain d is expected to reach in storage st
Expected(st, d) ==
    IF HasOverride(st, d) THEN Override(st, d) ELSE st.fallback_hook

IsDispatch(r) == r.op \in {"PostDispatch", "QuoteDispatch"}

----------------------------------------------------------------------------
(* C1 *)

\* C1 as stated: in every reachable state, resolution for a domain that has
\* an override entry A yields A.
C1_OverrideAlwaysWins ==
    \A m \in Decodable :
        HasOverride(storage, DestOf(m)) =>
            /\ route(storage, m).res = Ok
            /\ route(storage, m).routed_hook = Override(storage, DestOf(m))

\* C1 amended: in every reachable state where the fallback hook is set,
\* resolution for a domain with an override entry A yields A whatever the
\* fallback's value is, and the post_dispatch or quote_dispatch just handled
\* for such a domain went to A.
C1_OverrideWinsOnceFallbackSet ==
    storage.fallback_hook # None =>
        /\ \A m \in Decodable :
              HasOverride(storage, DestOf(m)) =>
                  /\ route(storage, m).res = Ok
                  /\ route(storage, m).routed_hook = Override(storage, DestOf(m))
        /\ (/\ resp.op = "PostDispatch"
            /\ resp.req.message \in Decodable
            /\ HasOverride(storage, DestOf(resp.req.message)))
              => /\ resp.res = Ok
                 /\ resp.messages[1].contract_addr
                        = Override(storage, DestOf(resp.req.message))

C1_Witness ==
    /\ resp.op = "PostDispatch"
    /\ resp.res = Ok
    /\ HasOverride(storage, DestOf(resp.req.message))
    /\ Override(storage, DestOf(resp.req.message)) # storage.fallback_hook

----------------------------------------------------------------------------
(* C2 *)

\* C2: once a SetFallbackHook has succeeded, resolution for every domain
\* with no override yields the stored fallback, which is the address given
\* in the most recent successful SetFallbackHook.
C2_FallbackWhenNoOverride ==
    last_set # None =>
        /\ storage.fallback_hook = last_set
        /\ \A m \in Decodable :
              ~HasOverride(storage, DestOf(m)) =>
                  /\ route(storage, m).res = Ok
                  /\ route(storage, m).routed_hook = last_set
        /\ (/\ resp.op = "PostDispatch"
            /\ resp.req.message \in Decodable
            /\ ~HasOverride(storage, DestOf(resp.req.message)))
              => /\ resp.res = Ok
                 /\ resp.messages[1].contract_addr = last_set

C2_Witness ==
    /\ last_set = ROUTE1_ADDR
    /\ resp.op = "PostDispatch"
    /\ resp.res = Ok
    /\ ~HasOverride(storage, DestOf(resp.req.message))
    /\ resp.messages[1].contract_addr = ROUTE1_ADDR

----------------------------------------------------------------------------
(* C3 *)

\* C3: a SetFallbackHook whose sender is not the current owner fails with
\* Unauthorized and leaves the fallback slot, the owner and the routing
\* table as they were.
C3_NonOwnerSetFallbackFails ==
    [][ (resp'.op = "SetFallbackHook" /\ resp'.sender # storage.owner)
            => /\ resp'.res = Unauthorized
               /\ storage' = storage ]_vars

C3_Witness ==
    /\ resp.op = "SetFallbackHook"
    /\ resp.sender # storage.owner
    /\ resp.res = Unauthorized
    /\ resp.req.hook \in HookAddrs
    /\ storage.fallback_hook \notin {None, resp.req.hook}

----------------------------------------------------------------------------
(* C4 *)

\* C4: a successful post_dispatch for a message of domain D requests exactly
\* one call, to the hook resolved for D in the storage the request ran on,
\* carrying the request's message and metadata and no funds, and emits one
\* post_dispatch event whose domain, route and message_id are D, that hook
\* and the id of the decoded message.
C4_PostDispatchOneCall ==
    [][ (resp'.op = "PostDispatch" /\ resp'.res = Ok) =>
          LET D == DestOf(resp'.req.message)
              target == Expected(storage, D)
          IN  /\ target # None
              /\ resp'.messages =
                    << [contract_addr |-> target,
                        msg |-> [post_dispatch |->
                                    [metadata |-> resp'.req.metadata,
                                     message |-> resp'.req.message]],
                        funds |-> <<>>] >>
              /\ resp'.events =
                    << [ty |-> <<"hpl_hook_routing", "post_dispatch">>,
                        attributes |->
                            << <<"domain", ToString(D)>>,
                               <<"route", target>>,
                               <<"message_id",
                                 to_hex(id(decode(resp'.req.message).msg))>> >>] >>
      ]_vars

C4_Witness ==
    /\ resp.op = "PostDispatch"
    /\ resp.res = Ok
    /\ Len(resp.messages) = 1
    /\ resp.req.metadata # <<>>
    /\ resp.messages[1].contract_addr = ROUTE1_ADDR
    /\ storage.fallback_hook = FALLBACK_HOOK_ADDR

----------------------------------------------------------------------------
(* C5 *)

\* C5: a successful quote_dispatch returns the fee list that the hook
\* resolved for the message's domain, in the storage the query ran on,
\* answers to the same message and metadata; the hook asked is the one the
\* current storage resolves to, whatever was resolved by earlier requests.
C5_QuoteFromResolvedHook ==
    [][ (resp'.op = "QuoteDispatch" /\ resp'.res = Ok) =>
          LET target == Expected(storage, DestOf(resp'.req.message))
              answer == hook_quote_dispatch(resp'.querier, target,
                                            resp'.req.metadata,
                                            resp'.req.message)
          IN  /\ target # None
              /\ answer.res = Ok
              /\ resp'.data = [fees |-> answer.fees]
      ]_vars

C5_Witness ==
    /\ resp.op = "QuoteDispatch"
    /\ resp.res = Ok
    /\ resp.data.fees = << [denom |-> "utest", amount |-> BaseDomain] >>
    /\ storage.fallback_hook = FALLBACK_HOOK_ADDR

----------------------------------------------------------------------------
(* C6 *)

\* C6: instantiate leaves the fallback slot empty, the slot stays empty
\* until a SetFallbackHook succeeds, and every post_dispatch or
\* quote_dispatch handled while the slot is empty fails and requests no
\* call; for a message that has a destination domain the failure is the
\* not-found error of the empty slot, override or not.
C6_NoDispatchBeforeFallbackSet ==
    [][ /\ (resp'.op = "Instantiate" => storage'.fallback_hook = None)
        /\ (last_set' = None => storage'.fallback_hook = None)
        /\ (IsDispatch(resp') /\ storage.fallback_hook = None) =>
              /\ resp'.res # Ok
              /\ resp'.messages = <<>>
              /\ resp'.data = NoData
              /\ (resp'.req.message \in Decodable => resp'.res = NotFound)
      ]_vars

C6_Witness ==
    /\ resp.op = "PostDispatch"
    /\ resp.res = NotFound
    /\ storage.fallback_hook = None
    /\ HasOverride(storage, DestOf(resp.req.message))

----------------------------------------------------------------------------
(* C7 *)

\* C7: the fallback slot changes only in a successful SetFallbackHook sent
\* by the owner of that moment, which stores the address of the request;
\* no other request changes it, and once set it is never empty again.
C7_FallbackMutatedOnlyByOwner ==
    [][ /\ (storage'.fallback_hook # storage.fallback_hook =>
              /\ resp'.op = "SetFallbackHook"
              /\ resp'.res = Ok
              /\ resp'.sender = storage.owner
              /\ storage'.fallback_hook = resp'.req.hook)
        /\ (storage.fallback_hook # None => storage'.fallback_hook # None)
      ]_vars

C7_Witness ==
    /\ resp.op = "SetFallbackHook"
    /\ resp.res = Ok
    /\ resp.sender = DEPLOYER
    /\ storage.owner = DEPLOYER
    /\ storage.fallback_hook = resp.req.hook

----------------------------------------------------------------------------
(* C8 *)

\* C8: when the owner repeats the SetFallbackHook that has just succeeded,
\* with the same address, the second call succeeds too and leaves the
\* storage, hence the route of every message, as the first call left it.
C8_SetFallbackIdempotent ==
    [][ (/\ resp.op = "SetFallbackHook"
         /\ resp.res = Ok
         /\ resp'.op = "SetFallbackHook"
         /\ resp'.sender = resp.sender
         /\ resp'.req.hook = resp.req.hook) =>
            /\ resp'.res = Ok
            /\ storage' = storage
            /\ \A m \in HexMessages : route(storage', m) = route(storage, m)
      ]_vars

C8_Witness ==
    /\ set_twice
    /\ resp.op = "SetFallbackHook"
    /\ resp.res = Ok
    /\ storage.fallback_hook = resp.req.hook

----------------------------------------------------------------------------
(* C9 *)

\* C9: the outcome of a post_dispatch does not depend on who sends it: it
\* succeeds exactly when the message decodes and the fallback slot is set,
\* and every sender, owner or not, gets the result, the call, the events
\* and the storage that the actual sender got.
C9_PostDispatchOpenToAll ==
    [][ resp'.op = "PostDispatch" =>
          /\ (resp'.res = Ok) <=> (/\ resp'.req.message \in Decodable
                                   /\ storage.fallback_hook # None)
          /\ \A c \in Senders :
                LET out == post_dispatch(storage, [sender |-> c], resp'.req)
                IN  /\ out.res = resp'.res
                    /\ out.messages = resp'.messages
                    /\ out.events = resp'.events
                    /\ Commit(storage, out) = storage'
      ]_vars

C9_Witness ==
    /\ resp.op = "PostDispatch"
    /\ resp.res = Ok
    /\ resp.sender # storage.owner
    /\ Len(resp.messages) = 1

----------------------------------------------------------------------------
(* C10 *)

\* C10: after a successful instantiate the stored owner is the owner named
\* in the message; a sender that is not the named owner cannot
\* SetFallbackHook.
C10_OwnerIsNamedOwner ==
    [][ (resp'.op = "Instantiate" /\ resp'.res = Ok) =>
          /\ storage'.owner = resp'.req.owner
          /\ resp'.sender # resp'.req.owner =>
                \A hook \in HookAddrs \cup {BadAddr} :
                    set_fallback_hook(storage', [sender |-> resp'.sender], hook).res
                        = Unauthorized
      ]_vars

C10_Witness ==
    /\ resp.op = "Instantiate"
    /\ resp.res = Ok
    /\ resp.sender = DEPLOYER
    /\ resp.req.owner = OWNER
    /\ storage.owner = OWNER

----------------------------------------------------------------------------
(* C11 *)

\* C11: in every reachable state the mailbox query answers the sentinel
\* "unrestricted", whatever the owner, the fallback hook and the routing
\* table are, and the mailbox query just handled answered it.
C11_MailboxUnrestricted ==
    /\ Instantiated =>
          /\ get_mailbox(storage).res = Ok
          /\ get_mailbox(storage).data = [mailbox |-> "unrestricted"]
    /\ resp.op = "GetMailbox" =>
          /\ resp.res = Ok
          /\ resp.data = [mailbox |-> "unrestricted"]

C11_Witness ==
    /\ resp.op = "GetMailbox"
    /\ resp.data = [mailbox |-> "unrestricted"]
    /\ storage.owner = DEPLOYER
    /\ storage.fallback_hook = ROUTE1_ADDR
    /\ \E d \in Domains : HasOverride(storage, d)

----------------------------------------------------------------------------
(* C12 *)

\* C12 as stated: a request for a domain with a non-empty override is
\* resolved to the override whether or not the fallback slot is set, and
\* never fails with the not-found error of the empty slot.
C12_OverrideNeedsNoFallback ==
    [][ (/\ IsDispatch(resp')
         /\ resp'.req.message \in Decodable
         /\ HasOverride(storage, DestOf(resp'.req.message)))
            => resp'.res # NotFound ]_vars

\* C12 amended: resolution reads the fallback slot for every message that
\* decodes, before it reads the routing table: it succeeds exactly when the
\* slot is set, then with the override of a domain that has one and with
\* the fallback of a domain that has none; while the slot is empty it fails
\* with the not-found error on both branches.
C12_FallbackReadOnEveryBranch ==
    Instantiated => \A m \in Decodable :
        LET r == route(storage, m)
        IN  /\ (r.res = Ok) <=> (storage.fallback_hook # None)
            /\ storage.fallback_hook = None => r.res = NotFound
            /\ r.res = Ok =>
                  r.routed_hook = IF HasOverride(storage, DestOf(m))
                                  THEN Override(storage, DestOf(m))
                                  ELSE storage.fallback_hook

C12_Witness ==
    /\ resp.op = "QuoteDispatch"
    /\ resp.res = NotFound
    /\ storage.fallback_hook = None
    /\ HasOverride(storage, DestOf(resp.req.message))

----------------------------------------------------------------------------
(* C13 *)

\* C13: a post_dispatch fails exactly when the message does not decode or
\* the resolution of its route fails, i.e. the fallback slot is empty; a
\* failed post_dispatch returns the error of the failed step, requests no
\* call, emits no event, and leaves the owner, the fallback slot and the
\* routing table as they were.
C13_PostDispatchAllOrNothing ==
    [][ resp'.op = "PostDispatch" =>
          LET undecodable == resp'.req.message \notin Decodable
              unresolved == storage.fallback_hook = None
          IN  /\ (resp'.res # Ok) <=> (undecodable \/ unresolved)
              /\ undecodable => resp'.res = ValidationError
              /\ (~undecodable /\ unresolved) => resp'.res = NotFound
              /\ resp'.res # Ok =>
                    /\ resp'.messages = <<>>
                    /\ resp'.events = <<>>
                    /\ storage' = storage
      ]_vars

C13_Witness ==
    /\ resp.op = "PostDispatch"
    /\ resp.res = NotFound
    /\ resp.messages = <<>>
    /\ resp.events = <<>>
    /\ ~HasOverride(storage, DestOf(resp.req.message))
    /\ DOMAIN storage.routes # {}

----------------------------------------------------------------------------
(* C14 *)

\* C14: SetFallbackHook is gated by the owner stored when the request is
\* handled: a sender other than that owner fails with Unauthorized, that
\* owner succeeds with a well-formed address, which is then stored; so
\* after the ownership has moved, the owner recorded by instantiate fails
\* and the new owner succeeds.
C14_GateFollowsCurrentOwner ==
    [][ resp'.op = "SetFallbackHook" =>
          /\ resp'.sender # storage.owner =>
                /\ resp'.res = Unauthorized
                /\ storage'.fallback_hook = storage.fallback_hook
          /\ (/\ resp'.sender = storage.owner
              /\ resp'.req.hook \in HookAddrs) =>
                /\ resp'.res = Ok
                /\ storage'.fallback_hook = resp'.req.hook
          /\ (/\ storage.owner # OWNER
              /\ resp'.sender = OWNER) => resp'.res = Unauthorized
      ]_vars

C14_Witness ==
    /\ resp.op = "SetFallbackHook"
    /\ resp.res = Unauthorized
    /\ resp.sender = OWNER
    /\ storage.owner = DEPLOYER
    /\ resp.req.hook \in HookAddrs
    /\ storage.fallback_hook = None

----------------------------------------------------------------------------
(* C15 *)

\* the storage st without the entry of domain d in the routing table
WithoutEntry(st, d) ==
    [st EXCEPT !.routes = [x \in (DOMAIN st.routes) \ {d} |-> st.routes[x]]]

EmptyEntry(st, d) == d \in DOMAIN st.routes /\ st.routes[d] = None

\* C15: after every request, a domain whose entry in the routing table is
\* empty resolves as it would without the entry, to the fallback hook when
\* that is set; and the request that empties the entry of a domain that had
\* an override leaves the domain resolved to the fallback hook.
C15_EmptyEntryIsNoOverride ==
    [][ /\ \A m \in Decodable :
              EmptyEntry(storage', DestOf(m)) =>
                  /\ route(storage', m) = route(WithoutEntry(storage', DestOf(m)), m)
                  /\ storage'.fallback_hook # None =>
                        /\ route(storage', m).res = Ok
                        /\ route(storage', m).routed_hook = storage'.fallback_hook
        /\ (/\ resp'.op = "Router"
            /\ resp'.res = Ok
            /\ resp'.req.set.route = None
            /\ HasOverride(storage, resp'.req.set.domain)
            /\ storage.fallback_hook # None) =>
              \A m \in Decodable :
                  DestOf(m) = resp'.req.set.domain =>
                      /\ route(storage, m).routed_hook
                            = Override(storage, DestOf(m))
                      /\ route(storage', m).res = Ok
                      /\ route(storage', m).routed_hook = storage.fallback_hook
      ]_vars

C15_Witness ==
    /\ resp.op = "Router"
    /\ resp.res = Ok
    /\ resp.req.set.route = None
    /\ EmptyEntry(storage, resp.req.set.domain)
    /\ storage.fallback_hook = FALLBACK_HOOK_ADDR
    /\ \E m \in Decodable :
          /\ DestOf(m) = resp.req.set.domain
          /\ route(storage, m).routed_hook = FALLBACK_HOOK_ADDR

----------------------------------------------------------------------------
(* C16 *)

\* C16: a quote_dispatch whose message does not decode, whose route does
\* not resolve or whose hook query fails, fails with the error of that
\* step, the hook's error included, and a failed quote_dispatch returns no
\* fee list; it succeeds only with the fee list the hook answered.
C16_QuoteNeverFabricatesFee ==
    [][ resp'.op = "QuoteDispatch" =>
          LET decodes == resp'.req.message \in Decodable
              resolves == decodes /\ storage.fallback_hook # None
              answer == hook_quote_dispatch(
                            resp'.querier,
                            Expected(storage, DestOf(resp'.req.message)),
                            resp'.req.metadata, resp'.req.message)
          IN  /\ ~decodes => resp'.res = ValidationError
              /\ (decodes /\ ~resolves) => resp'.res = NotFound
              /\ (resolves /\ answer.res # Ok) => resp'.res = answer.res
              /\ resp'.res # Ok => resp'.data = NoData
              /\ resp'.res = Ok =>
                    /\ resolves
                    /\ answer.res = Ok
                    /\ resp'.data = [fees |-> answer.fees]
      ]_vars

C16_Witness ==
    /\ resp.op = "QuoteDispatch"
    /\ resp.res = NoSuchContract
    /\ resp.data = NoData
    /\ resp.req.message \in Decodable
    /\ storage.fallback_hook # None

----------------------------------------------------------------------------
(* C17 *)

\* C17: a SetFallbackHook sent by the current owner with an address that is
\* not a well-formed account reference fails with the validation error of
\* the address and leaves the storage, the fallback slot included, as it
\* was: a fallback set before stays, an empty slot stays empty.
C17_MalformedHookRejected ==
    [][ (/\ resp'.op = "SetFallbackHook"
         /\ resp'.sender = storage.owner
         /\ resp'.req.hook \notin Senders \cup HookAddrs) =>
            /\ resp'.res = InvalidAddress
            /\ storage' = storage
            /\ last_set' = last_set
      ]_vars

C17_Witness ==
    /\ resp.op = "SetFallbackHook"
    /\ resp.sender = storage.owner
    /\ resp.req.hook = BadAddr
    /\ resp.res = InvalidAddress
    /\ storage.fallback_hook # None

----------------------------------------------------------------------------
(* C18 *)

\* C18: every post_dispatch and quote_dispatch, failed or not, leaves the
\* owner, the fallback slot and the routing table as they were, so every
\* message resolves after it as it did before it.
C18_DispatchReadOnly ==
    [][ IsDispatch(resp') =>
          /\ storage'.owner = storage.owner
          /\ storage'.pending_owner = storage.pending_owner
          /\ storage'.fallback_hook = storage.fallback_hook
          /\ storage'.routes = storage.routes
          /\ \A m \in HexMessages : route(storage', m) = route(storage, m)
      ]_vars

C18_Witness ==
    /\ resp.op = "QuoteDispatch"
    /\ resp.res = Ok
    /\ resp.req.metadata = <<>>
    /\ HasOverride(storage, DestOf(resp.req.message))
    /\ Override(storage, DestOf(resp.req.message)) # storage.fallback_hook
    /\ storage.owner = DEPLOYER

====
